---- MODULE Spec2Model ----
(***************************************************************************)
(* Bear MCP server (BearMCPServer): the call-tool dispatcher, the URL      *)
(* builder, the OS "open" subprocess and the ephemeral callback listener   *)
(* of executeWithCallback, as a state machine of Node event-loop tasks.    *)
(*                                                                         *)
(* Strings are sequences of chunks: a chunk is either a run of characters  *)
(* that encodeURIComponent leaves alone, or one single character that it   *)
(* percent-encodes.  Messages are sequences of text fragments.             *)
(***************************************************************************)
EXTENDS Integers, Sequences, FiniteSets, TLC

\* Number of tool invocations that may overlap (invocation slots, and ports).
MaxCalls == 2

Slots == 1..MaxCalls
\* Port numbers the OS may hand out to listen(0).
Ports == 1..MaxCalls

\* Record constructors list their fields in the order in which TLC keeps the
\* fields of a record, so that a record is never reordered after it was built.
(***************************************************************************)
(* JavaScript values of tool arguments and URL parameters                  *)
(***************************************************************************)
Undef   == [t |-> "undef", s |-> <<>>, b |-> FALSE]
Str(s)  == [t |-> "str", s |-> s, b |-> FALSE]
Bool(b) == [t |-> "bool", s |-> <<>>, b |-> b]
Null    == [t |-> "null", s |-> <<>>, b |-> FALSE]

\* if (v) ...
Truthy(v) == \/ v.t = "str" /\ v.s # <<>>
             \/ v.t = "bool" /\ v.b

\* String(v) and `${v}`
ToStr(v) == IF v.t = "str" THEN v.s
            ELSE IF v.t = "bool" THEN (IF v.b THEN <<"true">> ELSE <<"false">>)
            ELSE IF v.t = "null" THEN <<"null">>
            ELSE <<"undefined">>

ArgNames == {"id", "title", "header", "exclude_trashed", "new_window", "edit",
             "selected", "pin", "float", "show_window", "open_note", "search",
             "text", "tags", "timestamp", "clipboard", "file", "filename",
             "type", "url", "mode", "new_line", "term", "tag", "token",
             "name", "new_name", "wait"}

\* An arguments object holding exactly the given <<name, value>> members.
ArgsOf(pairs) ==
    [n \in ArgNames |-> IF \E p \in pairs : p[1] = n
                        THEN (CHOOSE p \in pairs : p[1] = n)[2]
                        ELSE Undef]

(***************************************************************************)
(* encodeURIComponent and the URL builder                                  *)
(***************************************************************************)
\* Faulty variant of Reserved: the backslash is left as it is.
ReservedWithoutBackslash ==
    {" ", "\"", "$", "<backtick>", "&", "=", ":", "/", "?", "%", ",", "#", "+"}
\* The single-character chunks that encodeURIComponent escapes ("<backtick>"
\* stands for the backtick character).
Reserved == {" ", "\"", "$", "<backtick>", "\\", "&", "=", ":", "/", "?", "%", ",", "#", "+"}

PercentCode(c) ==
    CASE c = " "  -> "%20"
      [] c = "\"" -> "%22"
      [] c = "$"  -> "%24"
      [] c = "<backtick>" -> "%60"
      [] c = "\\" -> "%5C"
      [] c = "&"  -> "%26"
      [] c = "="  -> "%3D"
      [] c = ":"  -> "%3A"
      [] c = "/"  -> "%2F"
      [] c = "?"  -> "%3F"
      [] c = "%"  -> "%25"
      [] c = ","  -> "%2C"
      [] c = "#"  -> "%23"
      [] c = "+"  -> "%2B"

\* Faulty variant of encodeURIComponent: nothing is escaped.
NoEncoding(s) == s
encodeURIComponent(s) ==
    [k \in 1..Len(s) |-> IF s[k] \in Reserved THEN PercentCode(s[k]) ELSE s[k]]

\* Faulty variant of QueryParts: members are not filtered on undefined / null.
QueryPartsUnfiltered(params) ==
    [n \in 1..Len(params) |->
        encodeURIComponent(<<params[n][1]>>) \o <<"=">>
            \o encodeURIComponent(ToStr(params[n][2]))]

RECURSIVE QueryParts(_)
\* for (const [key, value] of Object.entries(params)) ... queryParts.push(...)
QueryParts(params) ==
    IF params = <<>> THEN <<>>
    ELSE LET key   == Head(params)[1]
             value == Head(params)[2]
             rest  == QueryParts(Tail(params))
         IN IF value.t # "undef" /\ value.t # "null"
            THEN << encodeURIComponent(<<key>>) \o <<"=">> \o encodeURIComponent(ToStr(value)) >>
                 \o rest
            ELSE rest

RECURSIVE Join(_, _)
\* queryParts.join(sep)
Join(parts, sep) ==
    IF parts = <<>> THEN <<>>
    ELSE IF Len(parts) = 1 THEN parts[1]
    ELSE parts[1] \o <<sep>> \o Join(Tail(parts), sep)

buildBearURL(action, params) ==
    LET baseURL     == <<"bear://x-callback-url/", action>>
        queryString == Join(QueryParts(params), "&")
    IN IF queryString # <<>> THEN baseURL \o <<"?">> \o queryString ELSE baseURL

(***************************************************************************)
(* Tool catalog and the per-tool handlers                                  *)
(***************************************************************************)
\* The tools that go through executeWithCallback.
CallbackTools == {"bear_open_note", "bear_create_note", "bear_search",
                  "bear_get_tags", "bear_open_tag", "bear_get_untagged",
                  "bear_get_todo", "bear_get_today", "bear_grab_url"}

\* The tools that build the URL and call executeURL directly.
DirectTools == {"bear_add_text", "bear_add_file", "bear_trash_note",
                "bear_archive_note", "bear_get_locked", "bear_rename_tag",
                "bear_delete_tag"}

\* The cases of the dispatcher's switch.
\* Faulty variant of ToolNames: the switch has no case for bear_delete_tag.
ToolNamesWithoutDeleteTag == (CallbackTools \cup DirectTools) \ {"bear_delete_tag"}
ToolNames == CallbackTools \cup DirectTools

\* The action each handler passes to buildBearURL / executeWithCallback.
ActionOf(tool) ==
    CASE tool = "bear_open_note"    -> "open-note"
      [] tool = "bear_create_note"  -> "create"
      [] tool = "bear_add_text"     -> "add-text"
      [] tool = "bear_add_file"     -> "add-file"
      [] tool = "bear_search"       -> "search"
      [] tool = "bear_get_tags"     -> "tags"
      [] tool = "bear_open_tag"     -> "open-tag"
      [] tool = "bear_trash_note"   -> "trash"
      [] tool = "bear_archive_note" -> "archive"
      [] tool = "bear_get_untagged" -> "untagged"
      [] tool = "bear_get_todo"     -> "todo"
      [] tool = "bear_get_today"    -> "today"
      [] tool = "bear_get_locked"   -> "locked"
      [] tool = "bear_grab_url"     -> "grab-url"
      [] tool = "bear_rename_tag"   -> "rename-tag"
      [] tool = "bear_delete_tag"   -> "delete-tag"

\* The statements of each handler that fill params, in source order:
\*   "raw"  : params = { k: args.k }           (object literal, unconditional)
\*   "copy" : if (args.k) params.k = args.k;
\*   "yes"  : if (args.k) params.k = "yes";
Fields(tool) ==
    CASE tool = "bear_open_note" ->
           << <<"id", "copy">>, <<"title", "copy">>, <<"header", "copy">>,
              <<"exclude_trashed", "yes">>, <<"new_window", "yes">>, <<"edit", "yes">>,
              <<"selected", "copy">>, <<"pin", "yes">>, <<"float", "yes">>,
              <<"show_window", "yes">>, <<"open_note", "yes">>, <<"search", "copy">> >>
      [] tool = "bear_create_note" ->
           << <<"title", "copy">>, <<"text", "copy">>, <<"tags", "copy">>,
              <<"pin", "yes">>, <<"timestamp", "yes">>, <<"clipboard", "yes">>,
              <<"file", "copy">>, <<"filename", "copy">>, <<"open_note", "yes">>,
              <<"new_window", "yes">>, <<"float", "yes">>, <<"show_window", "yes">>,
              <<"edit", "yes">>, <<"type", "copy">>, <<"url", "copy">> >>
      [] tool = "bear_add_text" ->
           << <<"id", "copy">>, <<"title", "copy">>, <<"text", "copy">>,
              <<"mode", "copy">>, <<"new_line", "yes">>, <<"header", "copy">>,
              <<"selected", "copy">>, <<"clipboard", "yes">>, <<"exclude_trashed", "yes">>,
              <<"open_note", "yes">>, <<"new_window", "yes">>, <<"show_window", "yes">>,
              <<"edit", "yes">>, <<"timestamp", "yes">> >>
      [] tool = "bear_search" ->
           << <<"term", "copy">>, <<"tag", "copy">>, <<"token", "copy">>,
              <<"show_window", "yes">> >>
      [] tool = "bear_get_tags" ->
           << <<"token", "raw">> >>
      [] tool = "bear_open_tag" ->
           << <<"name", "raw">>, <<"token", "copy">>, <<"show_window", "yes">> >>
      [] tool = "bear_trash_note" ->
           << <<"id", "copy">>, <<"search", "copy">>, <<"show_window", "yes">> >>
      [] tool = "bear_archive_note" ->
           << <<"id", "copy">>, <<"search", "copy">>, <<"show_window", "yes">> >>
      [] tool = "bear_get_untagged" ->
           << <<"search", "copy">>, <<"token", "copy">>, <<"show_window", "yes">> >>
      [] tool = "bear_get_todo" ->
           << <<"search", "copy">>, <<"token", "copy">>, <<"show_window", "yes">> >>
      [] tool = "bear_get_today" ->
           << <<"search", "copy">>, <<"token", "copy">>, <<"show_window", "yes">> >>
      [] tool = "bear_get_locked" ->
           << <<"search", "copy">>, <<"show_window", "yes">> >>
      [] tool = "bear_add_file" ->
           << <<"id", "copy">>, <<"title", "copy">>, <<"selected", "copy">>,
              <<"file", "copy">>, <<"header", "copy">>, <<"filename", "copy">>,
              <<"mode", "copy">>, <<"open_note", "yes">>, <<"new_window", "yes">>,
              <<"show_window", "yes">>, <<"edit", "yes">> >>
      [] tool = "bear_grab_url" ->
           << <<"url", "raw">>, <<"tags", "copy">>, <<"pin", "yes">>, <<"wait", "yes">> >>
      [] tool = "bear_rename_tag" ->
           << <<"name", "raw">>, <<"new_name", "raw">>, <<"show_window", "yes">> >>
      [] tool = "bear_delete_tag" ->
           << <<"name", "raw">>, <<"show_window", "yes">> >>

\* The names of the tools the list-tools handler returns.
ListTools ==
    {"bear_open_note", "bear_create_note", "bear_add_text", "bear_add_file",
     "bear_search", "bear_get_tags", "bear_open_tag", "bear_trash_note",
     "bear_archive_note", "bear_get_untagged", "bear_get_todo", "bear_get_today",
     "bear_get_locked", "bear_grab_url", "bear_rename_tag", "bear_delete_tag"}

\* The properties the tool's inputSchema declares with type "boolean".
BooleanParams(tool) ==
    CASE tool = "bear_open_note" ->
           {"exclude_trashed", "new_window", "edit", "pin", "float", "show_window",
            "open_note"}
      [] tool = "bear_create_note" ->
           {"pin", "timestamp", "clipboard", "open_note", "new_window", "float",
            "show_window", "edit"}
      [] tool = "bear_add_text" ->
           {"new_line", "clipboard", "exclude_trashed", "open_note", "new_window",
            "show_window", "edit", "timestamp"}
      [] tool = "bear_add_file" ->
           {"open_note", "new_window", "show_window", "edit"}
      [] tool = "bear_get_tags" -> {}
      [] tool = "bear_grab_url" -> {"pin", "wait"}
      [] tool \in {"bear_search", "bear_open_tag", "bear_trash_note",
                   "bear_archive_note", "bear_get_untagged", "bear_get_todo",
                   "bear_get_today", "bear_get_locked", "bear_rename_tag",
                   "bear_delete_tag"} -> {"show_window"}

RECURSIVE FillParamsCopiesFlags(_, _)
\* Faulty variant of FillParams: a flag is copied instead of set to "yes".
FillParamsCopiesFlags(fields, args) ==
    IF fields = <<>> THEN <<>>
    ELSE LET k    == Head(fields)[1]
             how  == Head(fields)[2]
             rest == FillParamsCopiesFlags(Tail(fields), args)
         IN IF how = "raw" THEN << <<k, args[k]>> >> \o rest
            ELSE IF ~Truthy(args[k]) THEN rest
            ELSE << <<k, args[k]>> >> \o rest

RECURSIVE FillParams(_, _)
\* The params object a handler has built when it reaches its URL call:
\* a sequence of <<key, value>> in insertion order.
FillParams(fields, args) ==
    IF fields = <<>> THEN <<>>
    ELSE LET k    == Head(fields)[1]
             how  == Head(fields)[2]
             rest == FillParams(Tail(fields), args)
         IN IF how = "raw" THEN << <<k, args[k]>> >> \o rest
            ELSE IF ~Truthy(args[k]) THEN rest
            ELSE IF how = "copy" THEN << <<k, args[k]>> >> \o rest
            ELSE << <<k, Str(<<"yes">>)>> >> \o rest

ParamsOf(tool, args) == FillParams(Fields(tool), args)

\* `${cond ? ` label${args.k}` : ""}`
Opt(label, v) == IF Truthy(v) THEN <<label>> \o ToStr(v) ELSE <<>>

\* The human-readable text (the `message`, or the whole text of a direct tool)
\* each handler puts in its payload.
MessageOf(tool, args) ==
    CASE tool = "bear_open_note"    -> <<>>
      [] tool = "bear_create_note"  ->
           <<"Created new note in Bear">> \o Opt(" with title: ", args["title"])
      [] tool = "bear_add_text"     ->
           <<"Added text to note in Bear">> \o Opt(" using mode: ", args["mode"])
      [] tool = "bear_search"       ->
           <<"Searched Bear for: ">>
           \o (IF Truthy(args["term"]) THEN ToStr(args["term"]) ELSE <<"all notes">>)
           \o Opt(" in tag: ", args["tag"])
      [] tool = "bear_get_tags"     -> <<"Retrieved all tags from Bear">>
      [] tool = "bear_open_tag"     ->
           <<"Opened notes with tag: ">> \o ToStr(args["name"])
      [] tool = "bear_trash_note"   ->
           <<"Moved note(s) to trash">>
           \o (IF Truthy(args["id"]) THEN Opt(" with ID: ", args["id"])
               ELSE Opt(" matching: ", args["search"]))
      [] tool = "bear_archive_note" ->
           <<"Archived note(s)">>
           \o (IF Truthy(args["id"]) THEN Opt(" with ID: ", args["id"])
               ELSE Opt(" matching: ", args["search"]))
      [] tool = "bear_get_untagged" ->
           <<"Retrieved untagged notes">> \o Opt(" matching: ", args["search"])
      [] tool = "bear_get_todo"     ->
           <<"Retrieved todo notes">> \o Opt(" matching: ", args["search"])
      [] tool = "bear_get_today"    ->
           <<"Retrieved today's notes">> \o Opt(" matching: ", args["search"])
      [] tool = "bear_get_locked"   ->
           <<"Retrieved locked notes">> \o Opt(" matching: ", args["search"])
      [] tool = "bear_add_file"     ->
           <<"Added file to note in Bear">> \o Opt(" with filename: ", args["filename"])
      [] tool = "bear_grab_url"     ->
           <<"Created note from URL: ">> \o ToStr(args["url"])
      [] tool = "bear_rename_tag"   ->
           <<"Renamed tag from \"">> \o ToStr(args["name"]) \o <<"\" to \"">>
           \o ToStr(args["new_name"]) \o <<"\"">>
      [] tool = "bear_delete_tag"   ->
           <<"Deleted tag: ">> \o ToStr(args["name"])

\* inputSchema.required of each tool in the list-tools catalog.
Required(tool) ==
    CASE tool = "bear_add_text"   -> {"text"}
      [] tool = "bear_add_file"   -> {"file"}
      [] tool = "bear_get_tags"   -> {"token"}
      [] tool = "bear_open_tag"   -> {"name"}
      [] tool = "bear_grab_url"   -> {"url"}
      [] tool = "bear_rename_tag" -> {"name", "new_name"}
      [] tool = "bear_delete_tag" -> {"name"}
      [] OTHER -> {}

(***************************************************************************)
(* Errors and outcomes                                                     *)
(***************************************************************************)
\* new Error(msg)
PlainError(msg) == [msg |-> msg, code |-> "none"]

\* new McpError(code, msg): its message is `MCP error ${code}: ${msg}`
McpError(code, msg) == [msg |-> <<"MCP error ", code, ": ">> \o msg, code |-> code]

\* What call-tool has returned to the caller for an invocation.
NoOutcome == [msg |-> <<>>, code |-> "", kind |-> "none", data |-> <<>>]

Payload(text, data) == [msg |-> text, code |-> "", kind |-> "payload", data |-> data]

\* The catch of the call-tool handler: every error thrown by a tool handler
\* leaves as McpError(InternalError, `Tool execution failed: ${error.message}`).
ToolFailure(error) ==
    LET e == McpError("InternalError", <<"Tool execution failed: ">> \o error.msg)
    IN [msg |-> e.msg, code |-> e.code, kind |-> "error", data |-> <<>>]

(***************************************************************************)
(* The OS "open" subprocess                                                *)
(***************************************************************************)
\* const command = `open "${url}"`
CommandOf(url) == <<"open \"">> \o url \o <<"\"">>

\* How the subprocess may end: exit status and what it wrote to stderr.
ExecResults == {[exit |-> 0, stderr |-> <<>>],
                [exit |-> 0, stderr |-> <<"diag">>],
                [exit |-> 1, stderr |-> <<"diag">>],
                [exit |-> 1, stderr |-> <<>>]}

NotRun == [exit |-> 0, stderr |-> <<>>, state |-> "none"]

\* Faulty variant of ExecFailed: output on stderr is not taken as a failure.
ExecFailedIgnoresStderr(res) == res.exit # 0
\* executeURL throws: execAsync rejected (non-zero exit) or stderr non-empty.
ExecFailed(res) == res.exit # 0 \/ res.stderr # <<>>

\* The McpError executeURL throws for a failed run of `open "<url>"`.
ExecError(url, res) ==
    LET inner == IF res.exit # 0
                 THEN <<"Command failed: ">> \o CommandOf(url) \o <<"\n">> \o res.stderr
                 ELSE <<"Bear command failed: ">> \o res.stderr
    IN McpError("InternalError", <<"Failed to execute Bear URL: ">> \o inner)

(***************************************************************************)
(* The callback decoder of the request handler                             *)
(***************************************************************************)
JStr(s)  == [t |-> "str",  s |-> s,  b |-> FALSE, l |-> <<>>]
JBool(b) == [t |-> "bool", s |-> "", b |-> b,     l |-> <<>>]
JList(l) == [t |-> "list", s |-> "", b |-> FALSE, l |-> l]
JNum(s)  == [t |-> "num",  s |-> s,  b |-> FALSE, l |-> <<>>]
JNull    == [t |-> "null", s |-> "", b |-> FALSE, l |-> <<>>]

\* JSON.parse on the raw values the model sends: ok = FALSE when it throws.
\* Faulty variant of JsonParse: every value is rejected.
JsonParseAlwaysThrows(value) == [ok |-> FALSE, val |-> JNull]
JsonParse(value) ==
    CASE value = "[]"            -> [ok |-> TRUE, val |-> JList(<<>>)]
      [] value = "[\"a\",\"b\"]" -> [ok |-> TRUE, val |-> JList(<<"a", "b">>)]
      [] value = "1"             -> [ok |-> TRUE, val |-> JNum("1")]
      [] value = "true"          -> [ok |-> TRUE, val |-> JBool(TRUE)]
      [] value = "null"          -> [ok |-> TRUE, val |-> JNull]
      [] OTHER                   -> [ok |-> FALSE, val |-> JNull]

\* value ? value.split(',').filter(Boolean) : []
SplitComma(value) ==
    CASE value = "a,b" -> <<"a", "b">>
      [] value = "a,,b" -> <<"a", "b">>
      [] value = ""    -> <<>>
      [] OTHER         -> <<value>>

\* Whether callbackData[key] is there and truthy.
Has(data, key) == \E k \in 1..Len(data) : data[k][1] = key
Get(data, key) == data[CHOOSE k \in 1..Len(data) : data[k][1] = key][2]
JTruthy(v) == \/ v.t = "str" /\ v.s # ""
              \/ v.t = "bool" /\ v.b
              \/ v.t = "list"
              \/ v.t = "num" /\ v.s # "0"

\* obj[key] = val on an object kept as <<key, value>> pairs in insertion order.
Put(data, key, val) ==
    IF Has(data, key)
    THEN [k \in 1..Len(data) |-> IF data[k][1] = key THEN <<key, val>> ELSE data[k]]
    ELSE Append(data, <<key, val>>)

\* The if / else-if chain of the decoding loop, for one [key, value] entry.
\* Faulty variant of DecodeEntry: a boolean field is true for any non-empty value.
DecodeEntryTruthyFlags(data, key, value) ==
    IF key = "notes" \/ key = "tags"
    THEN (IF JsonParse(value).ok THEN JsonParse(value).val ELSE JStr(value))
    ELSE IF key = "is_trashed" \/ key = "pin"
    THEN JBool(value # "")
    ELSE JStr(value)

DecodeEntry(data, key, value) ==
    IF key = "notes" \/ key = "tags"
    THEN (IF JsonParse(value).ok THEN JsonParse(value).val ELSE JStr(value))
    ELSE IF key = "tags" /\ ~(Has(data, key) /\ JTruthy(Get(data, key)))
    THEN JList(SplitComma(value))
    ELSE IF key = "is_trashed" \/ key = "pin"
    THEN JBool(value = "yes")
    ELSE JStr(value)

RECURSIVE DecodeFrom(_, _)
DecodeFrom(data, entries) ==
    IF entries = <<>> THEN data
    ELSE LET key   == Head(entries)[1]
             value == Head(entries)[2]
         IN DecodeFrom(Put(data, key, DecodeEntry(data, key, value)), Tail(entries))

\* callbackData after the loop over searchParams.entries().
Decode(query) == DecodeFrom(<<>>, query)

\* new URL(req.url, 'http://localhost') throws on a request target such as "//".
UrlParses(req) == req.path # "//"

(***************************************************************************)
(* State                                                                   *)
(***************************************************************************)
VARIABLES
    call,       \* per invocation: request.params of the call-tool request
    outcome,    \* per invocation: what call-tool returned (payload or error)
    listener,   \* per invocation: the http server of executeWithCallback
    listens,    \* per invocation: number of server.listen calls
    closeCalls, \* per invocation: number of server.close calls
    tick,       \* per invocation: the listen callback is queued
    timer,      \* per invocation: the 10 s setTimeout
    proc,       \* per invocation: the `open` subprocess of executeURL
    got,        \* per invocation: the requests its request handler was run for
    opened,     \* the commands handed to exec, in order
    crashed,    \* the process died of an uncaught exception
    built,      \* one application of buildBearURL: its arguments and result
    decoded,    \* one run of the callback decoder loop: its query and result
    env,        \* process.env.BEAR_TOKEN when the process started
    handled     \* per invocation: how its request handler ended for each request

vars == <<call, outcome, listener, listens, closeCalls, tick, timer, proc, got,
          opened, crashed, built, decoded, env, handled>>

NoCall == [args |-> ArgsOf({}), name |-> "", hasArgs |-> FALSE]
NoListener == [state |-> "none", port |-> 0]

\* setTimeout(..., 10000)
CallbackTimeoutMs == 10000

\* No application of buildBearURL / of the decoder loop on its own.
NoBuilt == [params |-> <<>>, action |-> "", url |-> <<>>, done |-> FALSE]
NoDecoded == [data |-> <<>>, query |-> <<>>, done |-> FALSE]

\* The server after construction: no invocation yet.
Idle ==
    /\ call = [i \in Slots |-> NoCall]
    /\ outcome = [i \in Slots |-> NoOutcome]
    /\ listener = [i \in Slots |-> NoListener]
    /\ listens = [i \in Slots |-> 0]
    /\ closeCalls = [i \in Slots |-> 0]
    /\ tick = [i \in Slots |-> FALSE]
    /\ timer = [i \in Slots |-> [state |-> "unset", ms |-> 0]]
    /\ proc = [i \in Slots |-> NotRun]
    /\ got = [i \in Slots |-> <<>>]
    /\ handled = [i \in Slots |-> <<>>]
    /\ opened = <<>>
    /\ crashed = FALSE

\* The process is started with or without BEAR_TOKEN in its environment.
EnvTokens == {Undef, Str(<<"envtk">>)}

Init ==
    /\ Idle
    /\ built = NoBuilt
    /\ decoded = NoDecoded
    /\ env \in EnvTokens

\* The event loop takes the next task: the process is alive and no
\* process.nextTick callback (the 'listening' callback) is still queued.
CanRun == ~crashed /\ \A j \in Slots : ~tick[j]

\* Ports no listener of this process holds.  (Another in-use port is never
\* handed out by the OS to listen(0).)
\* Faulty variant of FreePorts: a port is handed out although a listener holds it.
AnyPort == Ports
FreePorts == Ports \ {listener[j].port : j \in {k \in Slots : listener[k].state = "open"}}

\* Faulty variant of Resolve: a resolution replaces an outcome already settled.
ResolveOverwrites(i, data) == Payload(MessageOf(call[i].name, call[i].args), data)

\* resolve(...) / reject(...) of the promise of executeWithCallback, followed
\* by the awaiting tool handler and the call-tool handler: only the first
\* settlement of a promise has an effect.
Resolve(i, data) ==
    IF outcome[i].kind = "none"
    THEN Payload(MessageOf(call[i].name, call[i].args), data)
    ELSE outcome[i]

\* Faulty variant of Reject: a rejection replaces an outcome already settled.
RejectOverwrites(i, error) == ToolFailure(error)
Reject(i, error) ==
    IF outcome[i].kind = "none" THEN ToolFailure(error) ELSE outcome[i]

\* server.close(): the listener stops listening and its port is released.
CloseServer(l) == IF l.state = "open" THEN [l EXCEPT !.state = "closed"] ELSE l

\* `http://localhost:${address.port}/callback`
CallbackUrl(port) ==
    <<"http", ":", "/", "/", "localhost", ":", ToString(port), "/", "callback">>

\* params[key] = value
SetParam(params, key, value) ==
    IF \E k \in 1..Len(params) : params[k][1] = key
    THEN [k \in 1..Len(params) |-> IF params[k][1] = key THEN <<key, value>> ELSE params[k]]
    ELSE Append(params, <<key, value>>)

\* if (!args.token) throw new McpError(ErrorCode.InvalidParams, ...)
\* Faulty variant of TokenMissing: getTags without its token check.
TokenNotChecked(c) == FALSE
TokenMissing(c) == c.name = "bear_get_tags" /\ ~Truthy(c.args["token"])

(***************************************************************************)
(* Operations                                                              *)
(***************************************************************************)
\* The call-tool request handler, up to the first point where it waits:
\* the switch on the tool name, the tool handler's argument reads, and then
\* either exec (direct tools) or createServer + server.listen(0).
CallTool(i, c) ==
    /\ CanRun
    /\ call[i] = NoCall
    /\ \A j \in Slots : j < i => call[j] # NoCall
    /\ call' = [call EXCEPT ![i] = c]
    /\ IF c.name \notin ToolNames
       THEN /\ outcome' = [outcome EXCEPT ![i] =
                   ToolFailure(McpError("MethodNotFound", <<"Unknown tool: ", c.name>>))]
            /\ UNCHANGED <<listener, listens, tick, proc, opened>>
       ELSE IF ~c.hasArgs
       THEN /\ outcome' = [outcome EXCEPT ![i] =
                   ToolFailure(PlainError(
                       <<"Cannot read properties of undefined (reading '",
                         Fields(c.name)[1][1], "')">>))]
            /\ UNCHANGED <<listener, listens, tick, proc, opened>>
       ELSE IF TokenMissing(c)
       THEN /\ outcome' = [outcome EXCEPT ![i] =
                   ToolFailure(McpError("InvalidParams", <<"Token is required for getTags">>))]
            /\ UNCHANGED <<listener, listens, tick, proc, opened>>
       ELSE IF c.name \in DirectTools
       THEN /\ opened' = Append(opened,
                   [url |-> buildBearURL(ActionOf(c.name), ParamsOf(c.name, c.args)),
                    inv |-> i, via |-> "executeURL"])
            /\ proc' = [proc EXCEPT ![i].state = "running"]
            /\ UNCHANGED <<outcome, listener, listens, tick>>
       ELSE /\ \E p \in FreePorts :
                   listener' = [listener EXCEPT ![i] = [state |-> "open", port |-> p]]
            /\ listens' = [listens EXCEPT ![i] = @ + 1]
            /\ tick' = [tick EXCEPT ![i] = TRUE]
            /\ UNCHANGED <<outcome, proc, opened>>
    /\ UNCHANGED <<closeCalls, timer, got, crashed, built, decoded, env, handled>>

\* The callback of server.listen(0, ...): x-success is stored in params, the
\* URL is built and handed to executeURL, and the timeout is armed.
\* Faulty variant of ListenCallback: the URL is built from params before
\* x-success is stored in it.
ListenCallbackBuildsFirst(i) ==
    /\ ~crashed
    /\ tick[i]
    /\ tick' = [tick EXCEPT ![i] = FALSE]
    /\ opened' = Append(opened,
           [url |-> buildBearURL(ActionOf(call[i].name),
                                 ParamsOf(call[i].name, call[i].args)),
            inv |-> i, via |-> "executeWithCallback"])
    /\ proc' = [proc EXCEPT ![i].state = "running"]
    /\ timer' = [timer EXCEPT ![i] = [state |-> "armed", ms |-> CallbackTimeoutMs]]
    /\ UNCHANGED <<call, outcome, listener, listens, closeCalls, got, crashed, built, decoded, env, handled>>

ListenCallback(i) ==
    /\ ~crashed
    /\ tick[i]
    /\ tick' = [tick EXCEPT ![i] = FALSE]
    /\ IF listener[i].state = "open"
       THEN LET callbackUrl == CallbackUrl(listener[i].port)
                params == SetParam(ParamsOf(call[i].name, call[i].args),
                                   "x-success", Str(callbackUrl))
                bearUrl == buildBearURL(ActionOf(call[i].name), params)
            IN /\ opened' = Append(opened,
                       [url |-> bearUrl, inv |-> i, via |-> "executeWithCallback"])
               /\ proc' = [proc EXCEPT ![i].state = "running"]
               /\ timer' = [timer EXCEPT ![i] =
                       [state |-> "armed", ms |-> CallbackTimeoutMs]]
               /\ UNCHANGED outcome
       ELSE /\ outcome' = [outcome EXCEPT ![i] =
                   Reject(i, PlainError(<<"Failed to start callback server">>))]
            /\ UNCHANGED <<opened, proc, timer>>
    /\ UNCHANGED <<call, listener, listens, closeCalls, got, crashed, built, decoded, env, handled>>

\* The `open` subprocess ends and the await in executeURL continues: a direct
\* tool returns its text or throws; in executeWithCallback only .catch(reject)
\* is attached.
\* Faulty variant of ExecDone: a failed `open` is run again.
ExecDoneRetries(i, res) ==
    /\ CanRun
    /\ proc[i].state = "running"
    /\ IF ExecFailed(res)
       THEN /\ opened' = Append(opened, opened[CHOOSE k \in 1..Len(opened) : opened[k].inv = i])
            /\ UNCHANGED <<proc, outcome>>
       ELSE /\ proc' = [proc EXCEPT ![i] = [exit |-> res.exit, stderr |-> res.stderr,
                                           state |-> "done"]]
            /\ outcome' = [outcome EXCEPT ![i] =
                   IF call[i].name \in DirectTools
                   THEN Payload(MessageOf(call[i].name, call[i].args), <<>>)
                   ELSE @]
            /\ UNCHANGED opened
    /\ UNCHANGED <<call, listener, listens, closeCalls, tick, timer, got, crashed, built, decoded, env, handled>>

ExecDone(i, res) ==
    /\ CanRun
    /\ proc[i].state = "running"
    /\ proc' = [proc EXCEPT ![i] = [exit |-> res.exit, stderr |-> res.stderr,
                                    state |-> "done"]]
    /\ LET url == opened[CHOOSE k \in 1..Len(opened) : opened[k].inv = i].url
       IN outcome' = [outcome EXCEPT ![i] =
              IF call[i].name \in DirectTools
              THEN (IF ExecFailed(res)
                    THEN ToolFailure(ExecError(url, res))
                    ELSE Payload(MessageOf(call[i].name, call[i].args), <<>>))
              ELSE (IF ExecFailed(res)
                    THEN Reject(i, ExecError(url, res))
                    ELSE @)]
    /\ UNCHANGED <<call, listener, listens, closeCalls, tick, timer, got, opened, crashed,
                 built, decoded, env, handled>>

\* What the request handler wrote to the response: nothing when new URL threw,
\* writeHead(500) in the catch, writeHead(200) otherwise.
Handled(req, throws) ==
    IF ~UrlParses(req) THEN [threw |-> "url", status |-> 0]
    ELSE IF throws THEN [threw |-> "try", status |-> 500]
    ELSE [threw |-> "none", status |-> 200]

\* Requests per invocation that the model delivers.
MaxRequests == 2

\* The body of the request handler of createServer, run for request req of
\* invocation i.  `throws` is an exception raised inside the try block.
RequestHandler(i, req, throws) ==
    /\ got' = [got EXCEPT ![i] = Append(@, req)]
    /\ handled' = [handled EXCEPT ![i] = Append(@, Handled(req, throws))]
    /\ IF ~UrlParses(req)
       THEN \* uncaught exception in the 'request' listener: the process
            \* exits and the OS closes its sockets
            /\ crashed' = TRUE
            /\ listener' = [j \in Slots |-> CloseServer(listener[j])]
            /\ UNCHANGED <<closeCalls, outcome>>
       ELSE /\ crashed' = crashed
            /\ listener' = [listener EXCEPT ![i] = CloseServer(@)]
            /\ closeCalls' = [closeCalls EXCEPT ![i] = @ + 1]
            /\ outcome' = [outcome EXCEPT ![i] =
                   IF throws
                   THEN Reject(i, PlainError(<<"Failed to parse callback data: ",
                                               "exception">>))
                   ELSE Resolve(i, Decode(req.query))]
    /\ UNCHANGED <<call, listens, tick, timer, proc, opened, built, decoded, env>>

\* server.listen(0, ...) names no host: the socket is bound to the unspecified
\* address, which takes connections on every interface of the machine.
ListenHost == "::"

\* Whether a socket bound to host takes a connection arriving on iface.
Accepts(host, iface) ==
    \/ host \in {"::", "0.0.0.0"}
    \/ host \in {"localhost", "127.0.0.1", "::1"} /\ iface = "loopback"

\* The server's request handler runs for a request that reached port p.
\* `throws` is an exception raised inside the try block.
\* Faulty variant of Request: the catch branch forgets server.close().
RequestLeaksOnError(p, req, throws) ==
    /\ CanRun
    /\ \E i \in Slots :
        /\ Accepts(ListenHost, req.iface)
        /\ listener[i] = [state |-> "open", port |-> p]
        /\ got' = [got EXCEPT ![i] = Append(@, req)]
        /\ handled' = [handled EXCEPT ![i] = Append(@, Handled(req, throws))]
        /\ IF ~UrlParses(req)
           THEN /\ crashed' = TRUE
                /\ listener' = [j \in Slots |-> CloseServer(listener[j])]
                /\ UNCHANGED <<closeCalls, outcome>>
           ELSE IF throws
           THEN /\ crashed' = crashed
                /\ UNCHANGED <<listener, closeCalls>>
                /\ outcome' = [outcome EXCEPT ![i] =
                       Reject(i, PlainError(<<"Failed to parse callback data: ",
                                              "exception">>))]
           ELSE /\ crashed' = crashed
                /\ listener' = [listener EXCEPT ![i] = CloseServer(@)]
                /\ closeCalls' = [closeCalls EXCEPT ![i] = @ + 1]
                /\ outcome' = [outcome EXCEPT ![i] = Resolve(i, Decode(req.query))]
    /\ UNCHANGED <<call, listens, tick, timer, proc, opened, built, decoded, env>>

Request(p, req, throws) ==
    /\ CanRun
    /\ Accepts(ListenHost, req.iface)
    /\ \E i \in Slots :
        /\ listener[i] = [state |-> "open", port |-> p]
        /\ RequestHandler(i, req, throws)

\* A connection that was accepted while the listener was open and has
\* delivered a request stays open after server.close() (keep-alive); the
\* client sends another request on it and the request handler runs again.
KeptAliveRequest(i, req, throws) ==
    /\ CanRun
    /\ listener[i].state = "closed"
    /\ got[i] # <<>>
    /\ Len(got[i]) < MaxRequests
    /\ RequestHandler(i, req, throws)

\* The setTimeout callback: server.close(); reject(new Error('Callback timeout')).
\* Faulty variant of Timeout: the callback rejects without server.close().
TimeoutKeepsListening(i) ==
    /\ CanRun
    /\ timer[i].state = "armed"
    /\ timer' = [timer EXCEPT ![i].state = "fired"]
    /\ outcome' = [outcome EXCEPT ![i] = Reject(i, PlainError(<<"Callback timeout">>))]
    /\ UNCHANGED <<call, listener, closeCalls, listens, tick, proc, got, opened, crashed,
                 built, decoded, env, handled>>

Timeout(i) ==
    /\ CanRun
    /\ timer[i].state = "armed"
    /\ timer' = [timer EXCEPT ![i].state = "fired"]
    /\ listener' = [listener EXCEPT ![i] = CloseServer(@)]
    /\ closeCalls' = [closeCalls EXCEPT ![i] = @ + 1]
    /\ outcome' = [outcome EXCEPT ![i] = Reject(i, PlainError(<<"Callback timeout">>))]
    /\ UNCHANGED <<call, listens, tick, proc, got, opened, crashed, built, decoded, env, handled>>

(***************************************************************************)
(* src/src/index.ts: the same server without executeWithCallback.  Its     *)
(* catalog, call-tool handler, buildBearURL, executeURL and the statements *)
(* that fill params are the same text; every tool handler builds its URL   *)
(* and awaits executeURL.                                                  *)
(***************************************************************************)
\* JSON.parse(result).note for what `open` wrote to stdout: ok = FALSE when
\* JSON.parse throws.
IndexTsNoteOf(stdout) ==
    CASE stdout = "{\"note\":\"body\"}" -> [ok |-> TRUE, note |-> <<"body">>]
      [] stdout = "{}"                  -> [ok |-> TRUE, note |-> <<>>]
      [] OTHER                          -> [ok |-> FALSE, note |-> <<>>]

\* The text each handler of index.ts returns once executeURL has returned.
IndexTsMessageOf(tool, args, stdout) ==
    IF tool = "bear_open_note"
    THEN LET fallback == <<"Opened note in Bear">>
                         \o (IF Truthy(args["id"]) THEN Opt(" with ID: ", args["id"])
                             ELSE Opt(" with title: ", args["title"]))
             response == IndexTsNoteOf(stdout)
         IN IF response.ok
            THEN (IF response.note # <<>> THEN response.note ELSE fallback)
            ELSE (IF stdout # "" THEN <<stdout>> ELSE fallback)
    ELSE MessageOf(tool, args)

\* The call-tool request handler of index.ts up to `await this.executeURL(url)`.
IndexTsCallTool(i, c) ==
    /\ CanRun
    /\ call[i] = NoCall
    /\ \A j \in Slots : j < i => call[j] # NoCall
    /\ call' = [call EXCEPT ![i] = c]
    /\ IF c.name \notin ToolNames
       THEN /\ outcome' = [outcome EXCEPT ![i] =
                   ToolFailure(McpError("MethodNotFound", <<"Unknown tool: ", c.name>>))]
            /\ UNCHANGED <<proc, opened>>
       ELSE IF ~c.hasArgs
       THEN /\ outcome' = [outcome EXCEPT ![i] =
                   ToolFailure(PlainError(
                       <<"Cannot read properties of undefined (reading '",
                         Fields(c.name)[1][1], "')">>))]
            /\ UNCHANGED <<proc, opened>>
       ELSE IF TokenMissing(c)
       THEN /\ outcome' = [outcome EXCEPT ![i] =
                   ToolFailure(McpError("InvalidParams", <<"Token is required for getTags">>))]
            /\ UNCHANGED <<proc, opened>>
       ELSE /\ opened' = Append(opened,
                   [url |-> buildBearURL(ActionOf(c.name), ParamsOf(c.name, c.args)),
                    inv |-> i, via |-> "executeURL"])
            /\ proc' = [proc EXCEPT ![i].state = "running"]
            /\ UNCHANGED outcome
    /\ UNCHANGED <<listener, listens, tick, closeCalls, timer, got, crashed, built, decoded, env, handled>>

\* The `open` subprocess ends and the handler of index.ts returns its text
\* or executeURL throws.
IndexTsExecDone(i, res, stdout) ==
    /\ CanRun
    /\ proc[i].state = "running"
    /\ proc' = [proc EXCEPT ![i] = [exit |-> res.exit, stderr |-> res.stderr,
                                    state |-> "done"]]
    /\ LET url == opened[CHOOSE k \in 1..Len(opened) : opened[k].inv = i].url
       IN outcome' = [outcome EXCEPT ![i] =
              IF ExecFailed(res)
              THEN ToolFailure(ExecError(url, res))
              ELSE Payload(IndexTsMessageOf(call[i].name, call[i].args, stdout), <<>>)]
    /\ UNCHANGED <<call, listener, listens, closeCalls, tick, timer, got, opened, crashed,
                   built, decoded, env, handled>>

(***************************************************************************)
(* buildBearURL and the decoder loop, each applied on its own              *)
(***************************************************************************)
\* buildBearURL(action, params) is applied to the arguments held in `built`.
BuildURL ==
    /\ ~built.done
    /\ built.action # ""
    /\ built' = [built EXCEPT !.done = TRUE,
                              !.url = buildBearURL(built.action, built.params)]
    /\ UNCHANGED <<call, outcome, listener, listens, closeCalls, tick, timer, proc,
                   got, opened, crashed, decoded, env, handled>>

\* The decoding loop of the request handler runs over the query held in `decoded`.
DecodeQuery ==
    /\ ~decoded.done
    /\ decoded' = [decoded EXCEPT !.done = TRUE, !.data = Decode(decoded.query)]
    /\ UNCHANGED <<call, outcome, listener, listens, closeCalls, tick, timer, proc,
                   got, opened, crashed, built, env, handled>>

(***************************************************************************)
(* Inputs                                                                  *)
(***************************************************************************)
ArgsEmpty    == ArgsOf({})
ArgsToken    == ArgsOf({<<"token", Str(<<"tk">>)>>})
ArgsNoToken  == ArgsOf({<<"token", Str(<<>>)>>, <<"name", Str(<<"work">>)>>})
ArgsRequired == ArgsOf({<<"name", Str(<<"work">>)>>, <<"new_name", Str(<<"job">>)>>,
                        <<"url", Str(<<"http", ":", "/", "/", "x">>)>>,
                        <<"text", Str(<<"hi">>)>>, <<"file", Str(<<"Zm9v">>)>>,
                        <<"token", Str(<<"tk">>)>>,
                        <<"term", Str(<<"foo">>)>>, <<"tag", Str(<<"bar">>)>>})
ArgsFlags    == ArgsOf({<<"id", Str(<<"N1">>)>>, <<"title", Str(<<"a", " ", "b">>)>>,
                        <<"search", Str(<<"\"", "$">>)>>,
                        <<"show_window", Bool(TRUE)>>, <<"pin", Bool(FALSE)>>,
                        <<"edit", Bool(TRUE)>>})

FlagNames == UNION {BooleanParams(tool) : tool \in ToolNames}
ArgsAllFlags == ArgsOf({<<f, Bool(TRUE)>> : f \in FlagNames})
ArgsNoFlags  == ArgsOf({<<f, Bool(FALSE)>> : f \in FlagNames}
                       \cup {<<"token", Str(<<"tk">>)>>})

\* Values made of the characters that are special in a double-quoted shell
\* string, in an argument of every tool.
ShellText == <<"\"", "$", "(", "id", ")", "<backtick>", "\\", "\"">>
ArgsShell == ArgsOf({<<f, Str(ShellText)>> :
                        f \in {"id", "title", "text", "file", "term", "token", "name",
                               "new_name", "search", "url", "tags"}})

ArgSamples == {ArgsEmpty, ArgsToken, ArgsNoToken, ArgsRequired, ArgsFlags,
               ArgsAllFlags, ArgsNoFlags, ArgsShell}

\* Every call-tool request of the model: any tool of the catalog or an unknown
\* name, with one of the sampled arguments objects or with no arguments member.
AllCalls ==
    {[args |-> a, name |-> n, hasArgs |-> TRUE] :
        n \in ListTools \cup {"bear_unknown"}, a \in ArgSamples}
    \cup {[args |-> ArgsEmpty, name |-> n, hasArgs |-> FALSE] :
        n \in ListTools \cup {"bear_unknown"}}

\* The call each slot makes in the overlapping-invocations specification:
\* searches and tag listings alternate.
ConcCall(i) ==
    IF i % 2 = 1
    THEN [args |-> ArgsRequired, name |-> "bear_search", hasArgs |-> TRUE]
    ELSE [args |-> ArgsToken, name |-> "bear_get_tags", hasArgs |-> TRUE]

\* Requests: the network interface they arrive on, method and target.
ReqNote == [query |-> << <<"identifier", "N1">>, <<"is_trashed", "yes">>,
                         <<"tags", "[\"a\",\"b\"]">> >>, path |-> "/callback",
            iface |-> "loopback", method |-> "GET"]
ReqTags == [query |-> << <<"tags", "a,b">> >>, path |-> "/callback", iface |-> "loopback",
            method |-> "GET"]
ReqIcon == [query |-> <<>>, path |-> "/favicon.ico", iface |-> "loopback",
            method |-> "GET"]
ReqPost == [query |-> << <<"notes", "[]">> >>, path |-> "/", iface |-> "loopback",
            method |-> "POST"]
ReqBad  == [query |-> <<>>, path |-> "//", iface |-> "loopback", method |-> "GET"]
\* A request sent by another host of the local network.
ReqRemote == [query |-> << <<"identifier", "N2">> >>, path |-> "/callback",
              iface |-> "lan", method |-> "GET"]

AllRequests == {ReqNote, ReqTags, ReqIcon, ReqPost, ReqBad, ReqRemote}
ConcRequests == {ReqNote, ReqTags}
\* What a client sends next on the connection of its first request.
KeptRequests == {ReqIcon}

(***************************************************************************)
(* Specifications                                                          *)
(***************************************************************************)
\* One tool invocation, any call, every environment outcome.  An exception
\* inside the try block of the request handler is drawn for one request.
Next ==
    \/ \E c \in AllCalls : CallTool(1, c)
    \/ ListenCallback(1)
    \/ \E res \in ExecResults : ExecDone(1, res)
    \/ \E p \in Ports, req \in AllRequests : Request(p, req, FALSE)
    \/ \E p \in Ports : Request(p, ReqNote, TRUE)
    \/ \E req \in KeptRequests : KeptAliveRequest(1, req, FALSE)
    \/ Timeout(1)

Spec == Init /\ [][Next]_vars

\* Up to MaxCalls overlapping callback-bearing invocations, each client
\* sending one request on its connection.
NextConc ==
    \/ \E i \in Slots : CallTool(i, ConcCall(i))
    \/ \E i \in Slots : ListenCallback(i)
    \/ \E i \in Slots, res \in {r \in ExecResults : r.exit = 0} : ExecDone(i, res)
    \/ \E p \in Ports, req \in ConcRequests : Request(p, req, FALSE)
    \/ \E i \in Slots : Timeout(i)

SpecConc == Init /\ [][NextConc]_vars

\* One tool invocation of src/src/index.ts.
Stdouts == {"", "plain", "{}", "{\"note\":\"body\"}"}

NextIndexTs ==
    \/ \E c \in AllCalls : IndexTsCallTool(1, c)
    \/ \E res \in ExecResults, stdout \in Stdouts : IndexTsExecDone(1, res, stdout)

SpecIndexTs == Init /\ [][NextIndexTs]_vars

\* The URL builder applied once to each parameter object of up to MaxParams
\* members (Object.entries lists them in insertion order; the names are not
\* integer-like, as no parameter name of the program is).
MaxParams == 2

BuildActions == {"search", "create"}
BuildKeys == {"term", "tag", "pin"}
BuildValues == {Undef, Null, Bool(TRUE), Bool(FALSE), Str(<<>>), Str(<<"foo">>),
                Str(<<"bar">>), Str(<<"a", "&", "b", "=", "?", " ", "c">>)}

ParamMaps ==
    {p \in UNION {[1..n -> BuildKeys \X BuildValues] : n \in 0..MaxParams} :
        \A a, b \in 1..Len(p) : a # b => p[a][1] # p[b][1]}

InitUrl ==
    /\ Idle
    /\ decoded = NoDecoded
    /\ env = Undef
    /\ built \in {[params |-> p, action |-> a, url |-> <<>>, done |-> FALSE] :
                     a \in BuildActions, p \in ParamMaps}

NextUrl == BuildURL

SpecUrl == InitUrl /\ [][NextUrl]_vars

\* The decoder applied once to each query of up to MaxEntries entries (a
\* query may repeat a key).
MaxEntries == 2

DecodeKeys == {"notes", "tags", "is_trashed", "pin", "title"}
RawValues == {"[]", "[\"a\",\"b\"]", "a,b", "a,,b", "", "yes", "Yes", "true", "1"}

Queries == UNION {[1..n -> DecodeKeys \X RawValues] : n \in 0..MaxEntries}

InitDecode ==
    /\ Idle
    /\ built = NoBuilt
    /\ env = Undef
    /\ decoded \in {[data |-> <<>>, query |-> q, done |-> FALSE] : q \in Queries}

NextDecode == DecodeQuery

SpecDecode == InitDecode /\ [][NextDecode]_vars

(***************************************************************************)
(* Reading the state                                                       *)
(***************************************************************************)
Started(i)    == call[i] # NoCall
Returned(i)   == outcome[i].kind # "none"
InFlight(i)   == Started(i) /\ ~Returned(i)
ViaCallback(i) == listens[i] > 0

\* Nothing of the invocation is pending any more.
Quiescent(i) == /\ Started(i)
                /\ ~tick[i]
                /\ timer[i].state # "armed"
                /\ proc[i].state # "running"

TimeoutFailure == ToolFailure(PlainError(<<"Callback timeout">>))
ParseFailure ==
    ToolFailure(PlainError(<<"Failed to parse callback data: ", "exception">>))

\* The commands invocation i handed to exec.
OpenedBy(i) == {k \in 1..Len(opened) : opened[k].inv = i}

\* The failure an invocation reports for the failed run of its subprocess.
DispatchFailure(i) ==
    ToolFailure(ExecError(opened[CHOOSE k \in OpenedBy(i) : TRUE].url, proc[i]))

ProcFailed(i) == proc[i].state = "done" /\ ExecFailed(proc[i])

OpenCount(l) == Cardinality({i \in Slots : l[i].state = "open"})

\* The query of a built URL as the receiving application splits it.
IndexOf(s, x) == IF \E k \in 1..Len(s) : s[k] = x
                 THEN CHOOSE k \in 1..Len(s) : s[k] = x /\ \A m \in 1..(k - 1) : s[m] # x
                 ELSE 0

RECURSIVE SplitOn(_, _)
SplitOn(s, sep) ==
    LET k == IndexOf(s, sep)
    IN IF k = 0 THEN <<s>>
       ELSE <<SubSeq(s, 1, k - 1)>> \o SplitOn(SubSeq(s, k + 1, Len(s)), sep)

QueryPairs(url) ==
    LET q == IndexOf(url, "?")
        parts == IF q = 0 THEN <<>> ELSE SplitOn(SubSeq(url, q + 1, Len(url)), "&")
    IN [n \in 1..Len(parts) |->
           LET e == IndexOf(parts[n], "=")
           IN <<SubSeq(parts[n], 1, e - 1), SubSeq(parts[n], e + 1, Len(parts[n]))>>]

\* The values the URL carries for a key.
QueryValues(url, key) ==
    LET pairs == QueryPairs(url)
    IN {pairs[n][2] : n \in {m \in 1..Len(pairs) : pairs[m][1] = <<key>>}}

(***************************************************************************)
(* Claims                                                                  *)
(***************************************************************************)

C2_ListenerClosedOnEveryExit ==
    \A i \in Slots :
        (got[i] # <<>> \/ timer[i].state = "fired" \/ Quiescent(i)) =>
            listener[i].state # "open"

C2_Witness ==
    \E i \in Slots :
        /\ got[i] # <<>>
        /\ outcome[i] = ParseFailure
        /\ listener[i].state = "closed"
        /\ closeCalls[i] = 1

\* C3: server.close is called at most once on an invocation's listener, and
\* exactly once by the time nothing of the invocation is pending any more.
C3_ClosedExactlyOnce ==
    \A i \in Slots :
        /\ closeCalls[i] <= 1
        /\ (ViaCallback(i) /\ Quiescent(i) /\ ~crashed) => closeCalls[i] = 1

\* C4: every URL executeWithCallback hands to the OS carries, as its only
\* x-success value, the percent-encoded address of the listener that the same
\* invocation has bound.
C4_XSuccessBeforeDispatch ==
    \A k \in 1..Len(opened) :
        opened[k].via = "executeWithCallback" =>
            LET i == opened[k].inv
            IN /\ listener[i].state # "none"
               /\ QueryValues(opened[k].url, "x-success")
                     = {encodeURIComponent(CallbackUrl(listener[i].port))}

C4_Witness ==
    \E k \in 1..Len(opened) :
        /\ opened[k].via = "executeWithCallback"
        /\ Len(QueryPairs(opened[k].url)) > 1
        /\ QueryValues(opened[k].url, "x-success")
              = {<<"http", "%3A", "%2F", "%2F", "localhost", "%3A",
                   ToString(listener[opened[k].inv].port), "%2F", "callback">>}

\* C5: two invocations in flight at the same time hold listeners on distinct
\* ports, and the payload an invocation returns is decoded from the first
\* request that reached its own listener.
C5_DistinctPortsOwnResult ==
    /\ \A i, j \in Slots :
          (i # j /\ InFlight(i) /\ InFlight(j) /\ ViaCallback(i) /\ ViaCallback(j)) =>
              listener[i].port # listener[j].port
    /\ \A i \in Slots :
          (ViaCallback(i) /\ outcome[i].kind = "payload") =>
              /\ got[i] # <<>>
              /\ outcome[i].data = Decode(got[i][1].query)

C5_Witness ==
    \E i, j \in Slots :
        /\ i < j
        /\ InFlight(i) /\ listener[i].state = "open"
        /\ outcome[j].kind = "payload" /\ got[j] # <<>>
        /\ outcome[j].data = Decode(got[j][1].query)
        /\ listener[i].port # listener[j].port

\* A bear_get_tags call whose arguments hold no token (absent or empty).
TagsCallWithoutToken(c) ==
    /\ c.name = "bear_get_tags"
    /\ ~c.hasArgs \/ ~Truthy(c.args["token"])

\* C6: the step that takes a bear_get_tags call without a token hands no URL
\* to the OS and starts no listener: the number of opened URLs, the number of
\* open listeners and every invocation's listen count stay as they were.
C6_TagsWithoutTokenNoEffect ==
    [][\A i \in Slots :
          (call[i] = NoCall /\ call'[i] # NoCall /\ TagsCallWithoutToken(call'[i])) =>
              /\ Len(opened') = Len(opened)
              /\ OpenCount(listener') = OpenCount(listener)
              /\ listens' = listens
              /\ outcome'[i].kind = "error"]_vars

C6_Witness ==
    \E i \in Slots :
        /\ TagsCallWithoutToken(call[i])
        /\ call[i].hasArgs
        /\ outcome[i].kind = "error"
        /\ opened = <<>>
        /\ listens[i] = 0

\* C7: the error call-tool returns for a bear_get_tags call without a token
\* has the InvalidParams code.
C7_InvalidParamsSurfaced ==
    \A i \in Slots :
        (Returned(i) /\ call[i].hasArgs /\ TagsCallWithoutToken(call[i])) =>
            /\ outcome[i].kind = "error"
            /\ outcome[i].code = "InvalidParams"

\* A call of a catalog tool that leaves out an argument its schema requires.
OmitsRequired(c) ==
    /\ c.name \in ToolNames
    /\ \E r \in Required(c.name) : ~c.hasArgs \/ c.args[r].t = "undef"

\* C8: an invocation that omits a required argument has failed, has handed no
\* URL to the OS and has started no listener.
C8_MissingRequiredNoAction ==
    \A i \in Slots :
        (Started(i) /\ OmitsRequired(call[i])) =>
            /\ outcome[i].kind = "error"
            /\ OpenedBy(i) = {}
            /\ listens[i] = 0

\* C9: once the open subprocess of an invocation has failed (non-zero exit or
\* output on stderr), the invocation has failed with the internal error that
\* carries the subprocess's diagnostic, and has returned no payload.
C9_DispatchFailureSurfaced ==
    \A i \in Slots :
        ProcFailed(i) =>
            /\ outcome[i].kind = "error"
            /\ outcome[i].code = "InternalError"
            /\ outcome[i] = DispatchFailure(i)

\* C10: an invocation hands at most one URL to the OS and calls listen at
\* most once, whatever has happened to it.
C10_AtMostOneOpenAndListen ==
    \A i \in Slots :
        /\ Cardinality(OpenedBy(i)) <= 1
        /\ listens[i] <= 1

C10_Witness ==
    \E i \in Slots :
        /\ Quiescent(i)
        /\ ViaCallback(i)
        /\ ProcFailed(i)
        /\ outcome[i] = DispatchFailure(i)
        /\ Cardinality(OpenedBy(i)) = 1
        /\ listens[i] = 1

\* C11: an invocation's outcome is a content payload or a failure, and once
\* it has one no later step (timeout, late dispatch error, later inbound
\* request) changes it: a payload never becomes a failure, a failure never
\* becomes a payload.
C11_OutcomeSettledOnce ==
    [][\A i \in Slots :
          /\ outcome'[i].kind \in {"none", "payload", "error"}
          /\ Returned(i) => outcome'[i] = outcome[i]]_vars

\* A payload was returned; afterwards the subprocess failed and the timer fired.
C11_Witness ==
    \E i \in Slots :
        /\ outcome[i].kind = "payload"
        /\ ViaCallback(i)
        /\ ProcFailed(i)
        /\ timer[i].state = "fired"

\* What the receiving application reads: the inverse of percent-encoding.
PercentChar(c) ==
    IF \E r \in Reserved : PercentCode(r) = c
    THEN CHOOSE r \in Reserved : PercentCode(r) = c
    ELSE c

decodeURIComponent(s) == [k \in 1..Len(s) |-> PercentChar(s[k])]

IsDefined(v) == v.t # "undef" /\ v.t # "null"

\* The members of a parameter object whose value is defined and not null.
DefinedMembers(params) == {n \in 1..Len(params) : IsDefined(params[n][2])}

\* The pairs of the query string that carry a key.
PairsOf(url, key) ==
    LET pairs == QueryPairs(url)
    IN {m \in 1..Len(pairs) : decodeURIComponent(pairs[m][1]) = <<key>>}

\* C12: in the URL buildBearURL returns, every member with a defined,
\* non-null value appears exactly once as key=value with no reserved
\* character left unencoded, no member with an undefined or null value
\* appears, and without any defined member the URL has no '?'.
C12_DefinedKeysOnceEncoded ==
    built.done =>
        LET pairs == QueryPairs(built.url)
        IN /\ \A n \in 1..Len(built.params) :
                  LET key   == built.params[n][1]
                      value == built.params[n][2]
                  IN IF IsDefined(value)
                     THEN /\ Cardinality(PairsOf(built.url, key)) = 1
                          /\ \A m \in PairsOf(built.url, key) :
                                 /\ decodeURIComponent(pairs[m][2]) = ToStr(value)
                                 /\ \A k \in 1..Len(pairs[m][2]) :
                                        pairs[m][2][k] \notin Reserved
                     ELSE PairsOf(built.url, key) = {}
           /\ Len(pairs) = Cardinality(DefinedMembers(built.params))
           /\ DefinedMembers(built.params) = {} =>
                  \A k \in 1..Len(built.url) : built.url[k] # "?"

\* A URL was built from an object with an undefined member and a member
\* whose value needs encoding.
C12_Witness ==
    /\ built.done
    /\ \E n \in 1..Len(built.params) : ~IsDefined(built.params[n][2])
    /\ \E n \in 1..Len(built.params) :
           /\ built.params[n][2].t = "str"
           /\ \E k \in 1..Len(built.params[n][2].s) : built.params[n][2].s[k] \in Reserved
    /\ Len(QueryPairs(built.url)) = 1

\* C13: in every URL handed to the OS, each boolean parameter of the tool's
\* schema that the call set to true is carried as key=yes, one that the call
\* set to false or left out is not carried, and no flag is ever carried with
\* another value ('no', 'true', 'false').
C13_FlagsYesOrAbsent ==
    \A k \in 1..Len(opened) :
        LET c   == call[opened[k].inv]
            url == opened[k].url
        IN \A f \in BooleanParams(c.name) :
              /\ c.args[f] = Bool(TRUE) => QueryValues(url, f) = {<<"yes">>}
              /\ c.args[f] \in {Bool(FALSE), Undef, Null} => QueryValues(url, f) = {}
              /\ QueryValues(url, f) \subseteq {<<"yes">>}
              /\ Cardinality({m \in 1..Len(QueryPairs(url)) :
                                 QueryPairs(url)[m][1] = <<f>>}) <= 1

\* A URL was handed over for a call with one flag true and another false.
C13_Witness ==
    \E k \in 1..Len(opened) :
        LET c == call[opened[k].inv]
        IN /\ \E f \in BooleanParams(c.name) :
                  c.args[f] = Bool(TRUE) /\ QueryValues(opened[k].url, f) = {<<"yes">>}
           /\ \E f \in BooleanParams(c.name) :
                  c.args[f] = Bool(FALSE) /\ QueryValues(opened[k].url, f) = {}

\* The parameter object and the URL of the search example.
SearchExample == << <<"term", Str(<<"foo">>)>>, <<"tag", Str(<<"bar">>)>> >>
SearchExampleUrl ==
    <<"bear://x-callback-url/", "search", "?", "term", "=", "foo", "&", "tag", "=", "bar">>

\* C14: for a parameter object of string values, the query of the built URL
\* lists the members in insertion order and splitting and percent-decoding
\* it gives back exactly the members; action 'search' with {term: 'foo',
\* tag: 'bar'} gives bear://x-callback-url/search?term=foo&tag=bar.
C14_BuildDecodeRoundTrip ==
    (built.done /\ \A n \in 1..Len(built.params) : built.params[n][2].t = "str") =>
        LET pairs == QueryPairs(built.url)
        IN /\ Len(pairs) = Len(built.params)
           /\ \A n \in 1..Len(pairs) :
                  /\ decodeURIComponent(pairs[n][1]) = <<built.params[n][1]>>
                  /\ decodeURIComponent(pairs[n][2]) = built.params[n][2].s
           /\ (built.action = "search" /\ built.params = SearchExample) =>
                  built.url = SearchExampleUrl

C14_Witness ==
    /\ built.done
    /\ built.action = "search"
    /\ built.params = SearchExample
    /\ built.url = SearchExampleUrl

\* The raw value of the last entry of a query that has the key.
HasEntry(query, key) == \E n \in 1..Len(query) : query[n][1] = key
LastValue(query, key) ==
    query[CHOOSE n \in 1..Len(query) :
              /\ query[n][1] = key
              /\ \A m \in (n + 1)..Len(query) : query[m][1] # key][2]

\* Raw values that are not JSON texts.
NotJson == {"a,b", "a,,b", "", "yes", "Yes"}

C16_BooleanFieldsYesOnly ==
    decoded.done =>
        \A key \in {"is_trashed", "pin"} :
            HasEntry(decoded.query, key) =>
                LET value == LastValue(decoded.query, key)
                    field == Get(decoded.data, key)
                IN /\ field.t = "bool"
                   /\ field.b <=> value = "yes"
                   /\ value \in {"", "Yes", "true"} => field = JBool(FALSE)

\* is_trashed=yes and pin=Yes were decoded.
C16_Witness ==
    /\ decoded.done
    /\ HasEntry(decoded.query, "is_trashed")
    /\ LastValue(decoded.query, "is_trashed") = "yes"
    /\ Get(decoded.data, "is_trashed") = JBool(TRUE)
    /\ HasEntry(decoded.query, "pin")
    /\ LastValue(decoded.query, "pin") = "Yes"
    /\ Get(decoded.data, "pin") = JBool(FALSE)

\* C17 (as stated): a tags field that arrives as a comma-separated string and
\* not as a JSON array decodes to the list of its non-empty items.
C17_TagsCommaSeparatedIsList ==
    (decoded.done /\ HasEntry(decoded.query, "tags")) =>
        LET value == LastValue(decoded.query, "tags")
        IN value \in {"a,b", "a,,b"} =>
               Get(decoded.data, "tags") = JList(<<"a", "b">>)

\* The callback-enhanced tools the README lists, and the other seven.
NineTools == {"bear_open_note", "bear_create_note", "bear_search", "bear_get_tags",
              "bear_open_tag", "bear_get_untagged", "bear_get_todo", "bear_get_today",
              "bear_grab_url"}
SevenTools == {"bear_add_text", "bear_add_file", "bear_trash_note", "bear_archive_note",
               "bear_get_locked", "bear_rename_tag", "bear_delete_tag"}

\* C18: an invocation of one of the nine tools that has not failed on its
\* arguments has started a listener, its URL carries x-success, and its
\* payload holds the decoded Callback Result; an invocation of any other
\* tool has no listener and no x-success in its URL.
C18_NineToolsListenSevenDoNot ==
    \A i \in Slots :
        /\ (call[i].name \in NineTools /\ (InFlight(i) \/ OpenedBy(i) # {})) =>
               listens[i] = 1
        /\ call[i].name \in NineTools =>
               /\ \A k \in OpenedBy(i) : QueryValues(opened[k].url, "x-success") # {}
               /\ outcome[i].kind = "payload" =>
                      /\ got[i] # <<>>
                      /\ outcome[i].data = Decode(got[i][1].query)
        /\ call[i].name \notin NineTools =>
               /\ listens[i] = 0
               /\ listener[i] = NoListener
               /\ \A k \in OpenedBy(i) : QueryValues(opened[k].url, "x-success") = {}

\* The action each tool is said to dispatch.
StatedAction ==
    [bear_open_note |-> "open-note", bear_create_note |-> "create",
     bear_add_text |-> "add-text", bear_add_file |-> "add-file",
     bear_search |-> "search", bear_get_tags |-> "tags", bear_open_tag |-> "open-tag",
     bear_trash_note |-> "trash", bear_archive_note |-> "archive",
     bear_get_untagged |-> "untagged", bear_get_todo |-> "todo",
     bear_get_today |-> "today", bear_get_locked |-> "locked",
     bear_grab_url |-> "grab-url", bear_rename_tag |-> "rename-tag",
     bear_delete_tag |-> "delete-tag"]

UnknownToolFailure(name) ==
    ToolFailure(McpError("MethodNotFound", <<"Unknown tool: ", name>>))

\* C19: call-tool reaches a handler exactly for the names list-tools
\* returns, every URL an invocation hands to the OS has the one action
\* stated for its tool, and no two tools dispatch the same action.
C19_CatalogMatchesDispatch ==
    /\ ListTools = DOMAIN StatedAction
    /\ \A a, b \in ListTools : a # b => ActionOf(a) # ActionOf(b)
    /\ \A i \in Slots :
           Started(i) =>
               /\ call[i].name \in ListTools => outcome[i] # UnknownToolFailure(call[i].name)
               /\ call[i].name \notin ListTools =>
                      /\ outcome[i] = UnknownToolFailure(call[i].name)
                      /\ OpenedBy(i) = {}
               /\ \A k \in OpenedBy(i) :
                      /\ opened[k].url[1] = "bear://x-callback-url/"
                      /\ opened[k].url[2] = StatedAction[call[i].name]

\* bear_archive_note and bear_grab_url each handed over a URL of its action.
C19_Witness ==
    \E i \in Slots :
        /\ call[i].name \in {"bear_archive_note", "bear_grab_url"}
        /\ \E k \in OpenedBy(i) : opened[k].url[2] = StatedAction[call[i].name]
        /\ outcome[i].kind = "payload"

\* The tools whose handler has a statement for the token argument.
TokenTools ==
    {tool \in ToolNames : \E n \in 1..Len(Fields(tool)) : Fields(tool)[n][1] = "token"}

\* The tokens a URL carries, as the application reads them.
TokensIn(url) == {decodeURIComponent(v) : v \in QueryValues(url, "token")}

\* C20 (as stated): a URL handed to the OS for a tool that takes a token
\* carries the call's token unchanged when the call supplies one, and
\* carries the token of BEAR_TOKEN when the call supplies none and the
\* process was started with BEAR_TOKEN set.
C20_TokenFromCallOrEnvironment ==
    \A k \in 1..Len(opened) :
        LET c == call[opened[k].inv]
        IN c.name \in TokenTools =>
              /\ Truthy(c.args["token"]) =>
                     TokensIn(opened[k].url) = {ToStr(c.args["token"])}
              /\ (~Truthy(c.args["token"]) /\ env # Undef) =>
                     TokensIn(opened[k].url) = {ToStr(env)}

\* The part of C20 about a token supplied by the call.
CallTokenPassedVerbatim ==
    \A k \in 1..Len(opened) :
        LET c == call[opened[k].inv]
        IN (c.name \in TokenTools /\ Truthy(c.args["token"])) =>
              TokensIn(opened[k].url) = {ToStr(c.args["token"])}

\* Whether a message has the fragment x.
Mentions(msg, x) == \E k \in 1..Len(msg) : msg[k] = x

\* The diagnostic of the event that made invocation i fail first.
FailureOf(i) ==
    IF outcome[i] = TimeoutFailure THEN <<"Callback timeout">>
    ELSE IF outcome[i] = ParseFailure THEN <<"exception">>
    ELSE IF ProcFailed(i) THEN proc[i].stderr
    ELSE <<>>

\* C21 (as stated): every failure call-tool returns for a tool of the catalog
\* names the action that was being executed (or its tool) and carries the
\* underlying diagnostic text, and a failed open subprocess always ends in a
\* failure.
C21_FailuresCarryActionAndDiagnostic ==
    \A i \in Slots :
        /\ (call[i].name \in ToolNames /\ outcome[i].kind = "error") =>
               /\ \/ Mentions(outcome[i].msg, ActionOf(call[i].name))
                  \/ Mentions(outcome[i].msg, call[i].name)
               /\ \A k \in 1..Len(FailureOf(i)) : Mentions(outcome[i].msg, FailureOf(i)[k])
        /\ ProcFailed(i) => outcome[i].kind = "error"

\* The part of C21 about the diagnostic text alone: a failure returned for a
\* timeout, a decode failure or a failed subprocess of a direct tool carries
\* the diagnostic of that event.
FailuresCarryDiagnostic ==
    \A i \in Slots :
        (call[i].name \in ToolNames /\ outcome[i].kind = "error") =>
            \A k \in 1..Len(FailureOf(i)) : Mentions(outcome[i].msg, FailureOf(i)[k])

\* The payload invocation i returns for the first request its listener got.
CallbackPayload(i) ==
    Payload(MessageOf(call[i].name, call[i].args), Decode(got[i][1].query))

TimerFiredFirst(i) == timer[i].state = "fired" /\ got[i] = <<>>

NothingSettled(i) ==
    /\ \A k \in 1..Len(handled[i]) : handled[i][k].threw = "url"
    /\ timer[i].state # "fired"
    /\ ~ProcFailed(i)

DecodeFailures(i) == {k \in 1..Len(handled[i]) : handled[i][k].threw # "none"}

\* C23 (as stated): once the handling of an inbound request has failed on its
\* query parameters, the invocation has failed with an error that is not the
\* timeout error, its listener is not open, and the request was answered
\* with an error status.
C23_DecodeFailureRejectsClosesAnswers ==
    \A i \in Slots :
        \A k \in DecodeFailures(i) :
            /\ outcome[i].kind = "error"
            /\ outcome[i] # TimeoutFailure
            /\ listener[i].state # "open"
            /\ handled[i][k].status >= 400

\* The part of C23 about an exception raised inside the try block of the
\* request handler.
FailureInTryRejectsClosesAnswers ==
    \A i \in Slots :
        \A k \in 1..Len(handled[i]) :
            handled[i][k].threw = "try" =>
                /\ outcome[i].kind = "error"
                /\ outcome[i] # TimeoutFailure
                /\ listener[i].state # "open"
                /\ handled[i][k].status = 500

\* The requests of invocation i that its handler decoded (the decoding loop
\* ran to its end).
Decodings(i) == {k \in 1..Len(handled[i]) : handled[i][k].threw = "none"}

\* C24 (as stated): the request handler of an invocation decodes at most one
\* request, a returned payload is the decoding of the first request, and
\* once a request was answered or the timer has fired the handler runs for
\* no further request.
C24_ExactlyOneCallbackCaptured ==
    /\ [](\A i \in Slots :
             /\ Cardinality(Decodings(i)) <= 1
             /\ (ViaCallback(i) /\ outcome[i].kind = "payload") =>
                    outcome[i] = CallbackPayload(i))
    /\ [][\A i \in Slots :
             (got[i] # <<>> \/ timer[i].state = "fired") => got'[i] = got[i]]_vars

\* The parts of C24 that do not depend on what a client sends on a connection
\* that server.close() leaves open: a returned payload is the decoding of
\* the first request, and a listener that was closed by the timeout before
\* any request runs its handler for none.
FirstRequestIsTheResult ==
    \A i \in Slots :
        /\ (ViaCallback(i) /\ outcome[i].kind = "payload") =>
               /\ Decodings(i) # {}
               /\ outcome[i] = CallbackPayload(i)
        /\ (got[i] # <<>> /\ timer[i].state = "fired") => closeCalls[i] > 1 \/ crashed

\* The request the x-success URL asks for.
IsCallback(req) == req.method = "GET" /\ req.path = "/callback"

\* C25 (as stated): a step in which the request handler runs for a request
\* that is not a GET of /callback neither settles the invocation nor closes
\* its listener.
C25_OnlyGetCallbackCounts ==
    [][\A i \in Slots :
          (Len(got'[i]) > Len(got[i]) /\ ~IsCallback(got'[i][Len(got'[i])])) =>
              /\ outcome'[i] = outcome[i]
              /\ listener'[i] = listener[i]]_vars

\* C26 (as stated): the request handler of an invocation only ever runs for
\* requests that arrived on the loopback interface, at the port the OS
\* assigned to the invocation's listener.
C26_LoopbackListenerOnly ==
    \A i \in Slots :
        /\ \A k \in 1..Len(got[i]) : got[i][k].iface = "loopback"
        /\ listener[i].state = "open" => listener[i].port \in Ports

\* C27: a fire-and-forget tool has returned its acknowledgement text only if
\* its open subprocess has ended with exit status 0 and nothing on stderr;
\* while the subprocess runs the tool has returned nothing, and after a
\* failed subprocess it has returned a failure.
C27_AckOnlyAfterOpenSucceeded ==
    \A i \in Slots :
        call[i].name \in DirectTools =>
            /\ outcome[i].kind = "payload" =>
                   /\ proc[i].state = "done"
                   /\ proc[i].exit = 0
                   /\ proc[i].stderr = <<>>
                   /\ outcome[i] = Payload(MessageOf(call[i].name, call[i].args), <<>>)
            /\ proc[i].state = "running" => ~Returned(i)
            /\ (proc[i].state = "done" /\ (proc[i].exit # 0 \/ proc[i].stderr # <<>>)) =>
                   outcome[i].kind = "error"

\* bear_trash_note has returned its acknowledgement after a clean end of open.
C27_Witness ==
    \E i \in Slots :
        /\ call[i].name = "bear_trash_note"
        /\ proc[i] = [exit |-> 0, stderr |-> <<>>, state |-> "done"]
        /\ outcome[i].kind = "payload"
        /\ outcome[i].msg[1] = "Moved note(s) to trash"

\* C28 (as stated): an invocation that names a tool outside the catalog has
\* failed with the MethodNotFound code and the text 'Unknown tool: <name>',
\* has handed no URL to the OS and has started no listener.
C28_UnknownToolMethodNotFound ==
    \A i \in Slots :
        (Started(i) /\ call[i].name \notin ListTools) =>
            /\ outcome[i].kind = "error"
            /\ outcome[i].code = "MethodNotFound"
            /\ Mentions(outcome[i].msg, "Unknown tool: ")
            /\ Mentions(outcome[i].msg, call[i].name)
            /\ OpenedBy(i) = {}
            /\ listens[i] = 0
            /\ listener[i] = NoListener

\* The part of C28 that does not depend on the error code.
UnknownToolNoEffect ==
    \A i \in Slots :
        (Started(i) /\ call[i].name \notin ListTools) =>
            /\ outcome[i].kind = "error"
            /\ Mentions(outcome[i].msg, "Unknown tool: ")
            /\ Mentions(outcome[i].msg, call[i].name)
            /\ OpenedBy(i) = {}
            /\ listens[i] = 0
            /\ listener[i] = NoListener

\* C29 (as stated): a callback-bearing invocation that has returned, with a
\* payload or with any failure, has a listener that is not open.
C29_ReturnedImpliesListenerClosed ==
    \A i \in Slots :
        (ViaCallback(i) /\ Returned(i)) => listener[i].state # "open"

\* The part of C29 for the returns that come from the request handler or
\* from the timeout callback.
CallbackOrTimeoutReturnClosed ==
    \A i \in Slots :
        (ViaCallback(i) /\ Returned(i) /\ outcome[i] # DispatchFailure(i)) =>
            listener[i].state # "open"

\* The characters that are special inside a double-quoted shell string.
ShellSpecial == {"\"", "$", "<backtick>", "\\"}

\* C30: in every command handed to exec, the URL between the two quotes has
\* none of the characters that are special inside a double-quoted shell
\* string: each such character of an argument value is carried as its
\* percent code, so the command is `open`, a quote, the URL and a quote.
C30_NoShellBreakout ==
    \A k \in 1..Len(opened) :
        LET url == opened[k].url
            command == CommandOf(url)
            c == call[opened[k].inv]
        IN /\ \A n \in 1..Len(url) : url[n] \notin ShellSpecial
           /\ command[1] = "open \""
           /\ command[Len(command)] = "\""
           /\ SubSeq(command, 2, Len(command) - 1) = url
           /\ \A n \in 1..Len(Fields(c.name)) :
                  LET f == Fields(c.name)[n][1]
                  IN (Fields(c.name)[n][2] # "yes" /\ c.args[f].t = "str" /\ c.args[f].s # <<>>) =>
                         /\ QueryValues(url, f) # {}
                         /\ \A v \in QueryValues(url, f) :
                                /\ decodeURIComponent(v) = c.args[f].s
                                /\ \A m \in 1..Len(v) :
                                       c.args[f].s[m] \in ShellSpecial =>
                                           v[m] = PercentCode(c.args[f].s[m])

\* A command was built for a call whose argument holds all four characters.
C30_Witness ==
    \E k \in 1..Len(opened) :
        LET c == call[opened[k].inv]
        IN /\ c.args["name"].s = ShellText
           /\ c.name = "bear_delete_tag"
           /\ QueryValues(opened[k].url, "name")
                 = {<<"%22", "%24", "(", "id", ")", "%60", "%5C", "%22">>}
           /\ proc[opened[k].inv].state = "done"

====
